---- MODULE Spec2Model ----
(***************************************************************************)
(* Model of the multivm abstraction layer:                                 *)
(*   - the composite tracer dispatcher of vm_virtual_blocks                *)
(*     (versions/vm_virtual_blocks/tracers/dispatcher.rs),                 *)
(*   - the VmInterface trait defaults (interface/traits/vm.rs),            *)
(*   - the vm 1.3.2 adapter (versions/vm_1_3_2/vm_instance.rs).            *)
(* The native engine VmInstance of vm 1.3.2 and the storage view are not   *)
(* part of the sources; they are modelled at their boundary.               *)
(***************************************************************************)
EXTENDS Integers, Sequences, FiniteSets, TLC

\* ---------------------------------------------------------------- bounds
MaxTracers == 3
NumTracerIds == 2
NumArgs == 2
NumBytecodes == 2
MaxDeps == 2
MaxTxs == 2
MaxHistoryTxs == 1
MaxSnapshots == 2
MaxCallTracers == 3
MaxCalls == 2

\* ------------------------------------------------------------- variables
VARIABLES
    tracers,        \* TracerDispatcher.tracers: ordered member handles
    answers,        \* per member tracer: its current should_stop_execution answer
    calls,          \* member invocations made by the last dispatcher call, in order
    lastHook,       \* the last call made on the dispatcher: [hook, arg]
    stop_result,    \* value returned by the last should_stop_execution query
    vm,             \* Vm.vm: the native vm 1.3.2 engine instance
    system_env,     \* Vm.system_env
    last_tx_compressed_bytecodes,   \* Vm.last_tx_compressed_bytecodes
    H,              \* the HistoryMode type parameter of the Vm
    lastCall,       \* the last VmInterface call: operation, arguments, returned value
    panicked,       \* a call has panicked (fatal failure)
    finished,       \* finish_batch has returned on this instance
    nsub,           \* number of transactions handed to the Vm so far
    captured,       \* what the caller observed at each make_snapshot still on the stack
    mv,             \* the version-agnostic TracerDispatcher a caller holds
    native,         \* the version-native dispatcher of the last conversion
    cell,           \* the shared OnceCell<Vec<Call>> behind the Arc
    call_tracers,   \* the CallTracer values alive, in creation order
    ncalls,         \* far calls recorded so far
    lastStore       \* the last store_result call: [who, had_cell, stack, ret]

dvars == <<tracers, answers, calls, lastHook, stop_result>>

vmvars == <<vm, system_env, last_tx_compressed_bytecodes, H, lastCall, panicked,
            finished, nsub, captured>>

pvars == <<mv, native>>

cvars == <<cell, call_tracers, ncalls, lastStore>>

vars == <<tracers, answers, calls, lastHook, stop_result, vm, system_env,
          last_tx_compressed_bytecodes, H, lastCall, panicked, finished, nsub,
          captured, mv, native, cell, call_tracers, ncalls, lastStore>>

\* ------------------------------------------------ composite dispatcher
TracerIds == 1..NumTracerIds
Args == 1..NumArgs

ForwardingHooks ==
    {"before_decoding", "after_decoding", "before_execution", "after_execution",
     "initialize_tracer", "after_cycle", "after_vm_execution", "save_results"}

NoHook == [hook |-> "none", arg |-> 0]

RECURSIVE SeqsUpTo(_, _)
SeqsUpTo(S, n) ==
    IF n = 0 THEN {<<>>}
    ELSE LET shorter == SeqsUpTo(S, n - 1)
         IN  shorter \cup {Append(s, x) : s \in shorter, x \in S}

\* TracerDispatcher::default
TracerDispatcherDefault == <<>>

\* `for tracer in self.tracers.iter() { tracer.borrow_mut().<hook>(args) }`
\* variant: visits the members from the last registered to the first
RECURSIVE ForEachTracerReversed(_, _, _, _)
ForEachTracerReversed(ts, hook, arg, log) ==
    IF ts = <<>> THEN log
    ELSE ForEachTracerReversed(Tail(ts), hook, arg,
                       <<[tracer |-> Head(ts), hook |-> hook, arg |-> arg]>> \o log)

RECURSIVE ForEachTracer(_, _, _, _)
ForEachTracer(ts, hook, arg, log) ==
    IF ts = <<>> THEN log
    ELSE ForEachTracer(Tail(ts), hook, arg,
                       Append(log, [tracer |-> Head(ts), hook |-> hook, arg |-> arg]))

\* should_stop_execution: result = result | tracer.should_stop_execution()
\* (non short-circuit `|`: every member is polled)
\* variant: short-circuit `||`, stops polling once a member answered true
RECURSIVE ShouldStopShortCircuit(_, _, _, _)
ShouldStopShortCircuit(ts, ans, result, log) ==
    IF ts = <<>> \/ result THEN [result |-> result, log |-> log]
    ELSE ShouldStopShortCircuit(Tail(ts), ans, result \/ ans[Head(ts)],
                        Append(log, [tracer |-> Head(ts),
                                     hook |-> "should_stop_execution",
                                     arg |-> 0]))

RECURSIVE ShouldStopLoop(_, _, _, _)
ShouldStopLoop(ts, ans, result, log) ==
    IF ts = <<>> THEN [result |-> result, log |-> log]
    ELSE ShouldStopLoop(Tail(ts), ans, result \/ ans[Head(ts)],
                        Append(log, [tracer |-> Head(ts),
                                     hook |-> "should_stop_execution",
                                     arg |-> 0]))

should_stop_execution(ts, ans) == ShouldStopLoop(ts, ans, FALSE, <<>>)


\* ------------------------------------------------- inputs of the adapter
Bytecodes == 1..NumBytecodes

\* zksync_utils::bytecode::hash_bytecode: content hash (collision free)
hash_bytecode(b) == 100 + b

Hashes == {hash_bytecode(b) : b \in Bytecodes}

\* CompressedBytecodeInfo::from_original(bytecode): fails for bytecodes that
\* do not compress (here: the even bytecodes)
from_original(b) ==
    IF b % 2 = 0 THEN [ok |-> FALSE, info |-> [original |-> 0, compressed |-> 0]]
    ELSE [ok |-> TRUE, info |-> [original |-> b, compressed |-> 1000 + b]]

None == [some |-> FALSE, v |-> <<>>]
Some(x) == [some |-> TRUE, v |-> x]

\* tx.execute.factory_deps : Option<Vec<Vec<u8>>>
FactoryDeps == {None} \cup {Some(d) : d \in SeqsUpTo(Bytecodes, MaxDeps)}

TxExecutionModes == {"VerifyExecute", "EstimateFee", "EthCall"}
VmExecutionModes == {"OneTx", "Batch", "Bootloader"}

NoTx == [id |-> 0, factory_deps |-> None]
NoResult ==
    [path |-> "none", job |-> "none", gas_limit |-> 0, txs |-> <<>>,
     status |-> "none"]

\* the hashes of the factory deps a transaction declares
TxDepHashes(tx) == {hash_bytecode(tx.factory_deps.v[i]) : i \in 1..Len(tx.factory_deps.v)}

RECURSIVE UnionDepHashes(_)
UnionDepHashes(entries) ==
    IF entries = <<>> THEN {}
    ELSE TxDepHashes(Head(entries).tx) \cup UnionDepHashes(Tail(entries))

\* ------------------------------------- native engine (vm_1_3_2::VmInstance)
\* The engine state that a snapshot captures.
EngineCore(e) ==
    [pending |-> e.pending, executed |-> e.executed,
     known_bytecodes |-> e.known_bytecodes]

\* vm_with_bootloader::init_vm_with_gas_limit
init_vm_with_gas_limit(known) ==
    [pending |-> <<>>, executed |-> <<>>, known_bytecodes |-> known,
     snapshots |-> <<>>]

\* vm_with_bootloader::push_transaction_to_bootloader_memory
push_transaction_to_bootloader_memory(e, tx, mode, compressed) ==
    [e EXCEPT !.pending = Append(@, [tx |-> tx, mode |-> mode,
                                     compressed |-> compressed])]

\* storage.is_bytecode_known(hash)
is_bytecode_known(e, h) == h \in e.known_bytecodes

\* VmInstance::execute_next_tx: runs the next pending transaction; the
\* interpreter registers the factory deps it processed (k: those it marks known)
execute_next_tx(e, gas_limit, with_call_tracer, k) ==
    IF e.pending = <<>>
    THEN [vm |-> e,
          result |-> [path |-> "execute_next_tx", job |-> "none",
                      gas_limit |-> gas_limit, txs |-> <<>>, status |-> "halt"]]
    ELSE LET entry == Head(e.pending)
         IN  [vm |-> [e EXCEPT
                        !.pending = Tail(@),
                        !.executed = Append(@, [id |-> entry.tx.id,
                                                path |-> "execute_next_tx"]),
                        !.known_bytecodes = @ \cup (k \cap TxDepHashes(entry.tx))],
              result |-> [path |-> "execute_next_tx", job |-> "none",
                          gas_limit |-> gas_limit,
                          txs |-> <<entry.tx.id>>, status |-> "ok"]]

\* VmInstance::execute_till_block_end(job): drives the bootloader to end of job,
\* processing everything that is in bootloader memory
execute_till_block_end(e, job, k) ==
    [vm |-> [e EXCEPT
               !.pending = <<>>,
               !.executed = @ \o [i \in 1..Len(e.pending) |->
                                    [id |-> e.pending[i].tx.id,
                                     path |-> "execute_till_block_end"]],
               !.known_bytecodes = @ \cup (k \cap UnionDepHashes(e.pending))],
     result |-> [path |-> "execute_till_block_end", job |-> job,
                 gas_limit |-> 0,
                 txs |-> [i \in 1..Len(e.pending) |-> e.pending[i].tx.id],
                 status |-> "ok"]]

\* VmInstance::execute_block_tip
execute_block_tip(e) ==
    [vm |-> e,
     result |-> [path |-> "execute_block_tip", job |-> "none",
                 gas_limit |-> 0, txs |-> <<>>, status |-> "ok"]]

\* VmInstance::save_current_vm_as_snapshot
save_current_vm_as_snapshot(e) ==
    [e EXCEPT !.snapshots = Append(@, EngineCore(e))]

\* VmInstance::rollback_to_latest_snapshot_popping
rollback_to_latest_snapshot_popping(e) ==
    LET snap == e.snapshots[Len(e.snapshots)]
    IN  [pending |-> snap.pending, executed |-> snap.executed,
         known_bytecodes |-> snap.known_bytecodes,
         snapshots |-> SubSeq(e.snapshots, 1, Len(e.snapshots) - 1)]

\* VmInstance::pop_snapshot_no_rollback
engine_pop_snapshot_no_rollback(e) ==
    [e EXCEPT !.snapshots = SubSeq(@, 1, Len(@) - 1)]

\* glue_into: native result -> VmExecutionResultAndLogs / FinishedL1Batch
glue_into(r) ==
    [result |-> r.status, logs |-> r.txs,
     statistics |-> <<r.path, r.job, r.gas_limit>>]

NoVal == glue_into(NoResult)

\* ------------------------------------------------ values returned by calls
Ret(kind, val) == [kind |-> kind, val |-> val]
Unit == Ret("unit", NoVal)
Panic == Ret("panic", NoVal)
Ok(val) == Ret("Ok", val)
BytecodeCompressionFailed == Ret("Err", NoVal)

\* the result of a call: the instance afterwards, the value returned, and the
\* locals `bytecodes` / number of from_original calls of the compression path
Outcome(self, ret) == [self |-> self, ret |-> ret, bytecodes |-> <<>>, attempts |-> 0]

\* -------------------------------------- vm 1.3.2 adapter (vm_instance.rs)
\* `type TracerDispatcher = Vec<Box<dyn Any>>`
AnyDispatchers == SeqsUpTo({1}, 1)

\* Self::TracerDispatcher::default()
VmTracerDispatcherDefault == <<>>

DefaultValidationGasLimit == 7

\* Vm::new
VmNew(env, known) ==
    [vm |-> init_vm_with_gas_limit(known),
     system_env |-> env,
     last_tx_compressed_bytecodes |-> <<>>]

\* Vm::push_transaction
push_transaction(self, tx) ==
    Outcome([self EXCEPT !.vm = push_transaction_to_bootloader_memory(
                                    self.vm, tx, self.system_env.execution_mode, None)],
            Unit)

\* variant: a supplied tracer stops OneTx before anything is executed
inspect_consulting_tracer(self, tracer, execution_mode, k) ==
    CASE execution_mode = "OneTx" ->
            IF tracer # <<>>
            THEN Outcome(self, Ret("value", glue_into(execute_block_tip(self.vm).result)))
            ELSE IF self.system_env.execution_mode = "VerifyExecute"
            THEN LET r == execute_next_tx(
                              self.vm,
                              self.system_env.default_validation_computational_gas_limit,
                              FALSE, k)
                 IN  Outcome([self EXCEPT !.vm = r.vm], Ret("value", glue_into(r.result)))
            ELSE LET r == execute_till_block_end(self.vm, "TransactionExecution", k)
                 IN  Outcome([self EXCEPT !.vm = r.vm], Ret("value", glue_into(r.result)))
      [] execution_mode = "Batch" -> Outcome(self, Panic)
      [] execution_mode = "Bootloader" ->
            LET r == execute_block_tip(self.vm)
            IN  Outcome([self EXCEPT !.vm = r.vm], Ret("value", glue_into(r.result)))

\* variant: OneTx drives the per-transaction path under every policy
inspect_always_next_tx(self, tracer, execution_mode, k) ==
    CASE execution_mode = "OneTx" ->
            LET r == execute_next_tx(
                         self.vm,
                         self.system_env.default_validation_computational_gas_limit,
                         FALSE, k)
            IN  Outcome([self EXCEPT !.vm = r.vm], Ret("value", glue_into(r.result)))
      [] execution_mode = "Batch" -> Outcome(self, Panic)
      [] execution_mode = "Bootloader" ->
            LET r == execute_block_tip(self.vm)
            IN  Outcome([self EXCEPT !.vm = r.vm], Ret("value", glue_into(r.result)))

\* variant: OneTx drives the engine to end of job under every policy
inspect_always_block_end(self, tracer, execution_mode, k) ==
    CASE execution_mode = "OneTx" ->
            LET r == execute_till_block_end(self.vm, "TransactionExecution", k)
            IN  Outcome([self EXCEPT !.vm = r.vm], Ret("value", glue_into(r.result)))
      [] execution_mode = "Batch" -> Outcome(self, Panic)
      [] execution_mode = "Bootloader" ->
            LET r == execute_block_tip(self.vm)
            IN  Outcome([self EXCEPT !.vm = r.vm], Ret("value", glue_into(r.result)))

\* variant: Batch mode drives the engine to the end of the block
inspect_batch_runs_block(self, tracer, execution_mode, k) ==
    CASE execution_mode = "OneTx" ->
            IF self.system_env.execution_mode = "VerifyExecute"
            THEN LET r == execute_next_tx(
                              self.vm,
                              self.system_env.default_validation_computational_gas_limit,
                              FALSE, k)
                 IN  Outcome([self EXCEPT !.vm = r.vm], Ret("value", glue_into(r.result)))
            ELSE LET r == execute_till_block_end(self.vm, "TransactionExecution", k)
                 IN  Outcome([self EXCEPT !.vm = r.vm], Ret("value", glue_into(r.result)))
      [] execution_mode = "Batch" ->
            LET r == execute_till_block_end(self.vm, "BlockPostprocessing", k)
            IN  Outcome([self EXCEPT !.vm = r.vm], Ret("value", glue_into(r.result)))
      [] execution_mode = "Bootloader" ->
            LET r == execute_block_tip(self.vm)
            IN  Outcome([self EXCEPT !.vm = r.vm], Ret("value", glue_into(r.result)))

\* Vm::inspect
inspect(self, tracer, execution_mode, k) ==
    CASE execution_mode = "OneTx" ->
            IF self.system_env.execution_mode = "VerifyExecute"
            THEN LET r == execute_next_tx(
                              self.vm,
                              self.system_env.default_validation_computational_gas_limit,
                              FALSE, k)
                 IN  Outcome([self EXCEPT !.vm = r.vm], Ret("value", glue_into(r.result)))
            ELSE LET r == execute_till_block_end(self.vm, "TransactionExecution", k)
                 IN  Outcome([self EXCEPT !.vm = r.vm], Ret("value", glue_into(r.result)))
      [] execution_mode = "Batch" -> Outcome(self, Panic)
      [] execution_mode = "Bootloader" ->
            LET r == execute_block_tip(self.vm)
            IN  Outcome([self EXCEPT !.vm = r.vm], Ret("value", glue_into(r.result)))

\* variant: the wrapper always asks for the next transaction
execute_ignoring_mode(self, execution_mode, k) ==
    inspect(self, VmTracerDispatcherDefault, "OneTx", k)

\* VmInterface::execute (trait default)
execute(self, execution_mode, k) ==
    inspect(self, VmTracerDispatcherDefault, execution_mode, k)

\* Vm::get_bootloader_memory
get_bootloader_memory(self) == <<>>

\* Vm::get_last_tx_compressed_bytecodes
get_last_tx_compressed_bytecodes(self) == self.last_tx_compressed_bytecodes

\* variant: the block boundary discards the records of the last transaction
start_new_l2_block_clearing(self, l2_block_env) ==
    Outcome([self EXCEPT !.last_tx_compressed_bytecodes = <<>>], Unit)

\* Vm::start_new_l2_block
start_new_l2_block(self, l2_block_env) == Outcome(self, Unit)

\* variant: hands out an empty state instead of failing
get_current_execution_state_default(self) == Outcome(self, Ret("value", NoVal))

\* Vm::get_current_execution_state
get_current_execution_state(self) == Outcome(self, Panic)

\* tx.execute.factory_deps.as_deref().unwrap_or_default()
unwrap_or_default(opt) == IF opt.some THEN opt.v ELSE <<>>

\* variant: a hash becomes pending only when its bytecode compressed
RECURSIVE FilterDepsOnlyCompressed(_, _, _, _, _, _)
FilterDepsOnlyCompressed(deps, e, deps_hashes, bytecode_hashes, compressed, attempts) ==
    IF deps = <<>>
    THEN [bytecode_hashes |-> bytecode_hashes, compressed_bytecodes |-> compressed,
          attempts |-> attempts]
    ELSE LET bytecode == Head(deps)
             bytecode_hash == hash_bytecode(bytecode)
             is_known == (bytecode_hash \in deps_hashes)
                         \/ is_bytecode_known(e, bytecode_hash)
             c == from_original(bytecode)
         IN  IF is_known
             THEN FilterDepsOnlyCompressed(Tail(deps), e, deps_hashes \cup {bytecode_hash},
                             bytecode_hashes, compressed, attempts)
             ELSE FilterDepsOnlyCompressed(Tail(deps), e, deps_hashes \cup {bytecode_hash},
                             IF c.ok THEN Append(bytecode_hashes, bytecode_hash)
                                     ELSE bytecode_hashes,
                             IF c.ok THEN Append(compressed, c.info) ELSE compressed,
                             attempts + 1)

\* variant: consults the cache only, without the deps_hashes set
RECURSIVE FilterDepsCacheOnly(_, _, _, _, _, _)
FilterDepsCacheOnly(deps, e, deps_hashes, bytecode_hashes, compressed, attempts) ==
    IF deps = <<>>
    THEN [bytecode_hashes |-> bytecode_hashes, compressed_bytecodes |-> compressed,
          attempts |-> attempts]
    ELSE LET bytecode == Head(deps)
             bytecode_hash == hash_bytecode(bytecode)
             c == from_original(bytecode)
         IN  IF is_bytecode_known(e, bytecode_hash)
             THEN FilterDepsCacheOnly(Tail(deps), e, deps_hashes, bytecode_hashes,
                                      compressed, attempts)
             ELSE FilterDepsCacheOnly(Tail(deps), e, deps_hashes,
                             Append(bytecode_hashes, bytecode_hash),
                             IF c.ok THEN Append(compressed, c.info) ELSE compressed,
                             attempts + 1)

\* the filter_map closure of inspect_transaction_with_bytecode_compression,
\* run over the dependency list by collect()
RECURSIVE FilterDeps(_, _, _, _, _, _)
FilterDeps(deps, e, deps_hashes, bytecode_hashes, compressed, attempts) ==
    IF deps = <<>>
    THEN [bytecode_hashes |-> bytecode_hashes, compressed_bytecodes |-> compressed,
          attempts |-> attempts]
    ELSE LET bytecode == Head(deps)
             bytecode_hash == hash_bytecode(bytecode)
             is_known == (bytecode_hash \in deps_hashes)
                         \/ is_bytecode_known(e, bytecode_hash)
             c == from_original(bytecode)
         IN  IF is_known
             THEN FilterDeps(Tail(deps), e, deps_hashes \cup {bytecode_hash},
                             bytecode_hashes, compressed, attempts)
             ELSE FilterDeps(Tail(deps), e, deps_hashes \cup {bytecode_hash},
                             Append(bytecode_hashes, bytecode_hash),
                             IF c.ok THEN Append(compressed, c.info) ELSE compressed,
                             attempts + 1)

\* variant: `all` in place of `any`
AllUnknown(bytecodes, e) ==
    /\ bytecodes # <<>>
    /\ \A i \in 1..Len(bytecodes) : ~is_bytecode_known(e, bytecodes[i])

\* the post-execution check: bytecodes.iter().any(|info| !is_bytecode_known(info))
AnyUnknown(bytecodes, e) ==
    \E i \in 1..Len(bytecodes) : ~is_bytecode_known(e, bytecodes[i])

\* variant: the records of the previous transaction are not cleared on entry
inspect_transaction_keeping_records(self, tracer, tx, with_compression, k) ==
    LET s0 == self
        f == FilterDeps(unwrap_or_default(tx.factory_deps), s0.vm, {}, <<>>, <<>>, 0)
        s1 == IF with_compression
              THEN [s0 EXCEPT
                      !.last_tx_compressed_bytecodes = f.compressed_bytecodes,
                      !.vm = push_transaction_to_bootloader_memory(
                                 s0.vm, tx, s0.system_env.execution_mode,
                                 Some(f.compressed_bytecodes))]
              ELSE [s0 EXCEPT
                      !.vm = push_transaction_to_bootloader_memory(
                                 s0.vm, tx, s0.system_env.execution_mode, Some(<<>>))]
        bytecodes == IF with_compression THEN f.bytecode_hashes ELSE <<>>
        r == execute_next_tx(s1.vm,
                             s1.system_env.default_validation_computational_gas_limit,
                             FALSE, k)
        s2 == [s1 EXCEPT !.vm = r.vm]
    IN  [self |-> s2,
         ret |-> IF AnyUnknown(bytecodes, s2.vm)
                 THEN BytecodeCompressionFailed
                 ELSE Ok(glue_into(r.result)),
         bytecodes |-> bytecodes,
         attempts |-> IF with_compression THEN f.attempts ELSE 0]

\* variant: a failed post-check drops the records of the transaction
inspect_transaction_dropping_records(self, tracer, tx, with_compression, k) ==
    LET s0 == [self EXCEPT !.last_tx_compressed_bytecodes = <<>>]
        f == FilterDeps(unwrap_or_default(tx.factory_deps), s0.vm, {}, <<>>, <<>>, 0)
        s1 == IF with_compression
              THEN [s0 EXCEPT
                      !.last_tx_compressed_bytecodes = f.compressed_bytecodes,
                      !.vm = push_transaction_to_bootloader_memory(
                                 s0.vm, tx, s0.system_env.execution_mode,
                                 Some(f.compressed_bytecodes))]
              ELSE [s0 EXCEPT
                      !.vm = push_transaction_to_bootloader_memory(
                                 s0.vm, tx, s0.system_env.execution_mode, Some(<<>>))]
        bytecodes == IF with_compression THEN f.bytecode_hashes ELSE <<>>
        r == execute_next_tx(s1.vm,
                             s1.system_env.default_validation_computational_gas_limit,
                             FALSE, k)
        s2 == [s1 EXCEPT !.vm = r.vm]
    IN  [self |-> IF AnyUnknown(bytecodes, s2.vm)
                  THEN [s2 EXCEPT !.last_tx_compressed_bytecodes = <<>>]
                  ELSE s2,
         ret |-> IF AnyUnknown(bytecodes, s2.vm)
                 THEN BytecodeCompressionFailed
                 ELSE Ok(glue_into(r.result)),
         bytecodes |-> bytecodes,
         attempts |-> IF with_compression THEN f.attempts ELSE 0]

\* Vm::inspect_transaction_with_bytecode_compression
inspect_transaction_with_bytecode_compression(self, tracer, tx, with_compression, k) ==
    LET s0 == [self EXCEPT !.last_tx_compressed_bytecodes = <<>>]
        f == FilterDeps(unwrap_or_default(tx.factory_deps), s0.vm, {}, <<>>, <<>>, 0)
        s1 == IF with_compression
              THEN [s0 EXCEPT
                      !.last_tx_compressed_bytecodes = f.compressed_bytecodes,
                      !.vm = push_transaction_to_bootloader_memory(
                                 s0.vm, tx, s0.system_env.execution_mode,
                                 Some(f.compressed_bytecodes))]
              ELSE [s0 EXCEPT
                      !.vm = push_transaction_to_bootloader_memory(
                                 s0.vm, tx, s0.system_env.execution_mode, Some(<<>>))]
        bytecodes == IF with_compression THEN f.bytecode_hashes ELSE <<>>
        r == execute_next_tx(s1.vm,
                             s1.system_env.default_validation_computational_gas_limit,
                             FALSE, k)
        s2 == [s1 EXCEPT !.vm = r.vm]
    IN  [self |-> s2,
         ret |-> IF AnyUnknown(bytecodes, s2.vm)
                 THEN BytecodeCompressionFailed
                 ELSE Ok(glue_into(r.result)),
         bytecodes |-> bytecodes,
         attempts |-> IF with_compression THEN f.attempts ELSE 0]

\* VmInterface::execute_transaction_with_bytecode_compression (trait default)
execute_transaction_with_bytecode_compression(self, tx, with_compression, k) ==
    inspect_transaction_with_bytecode_compression(
        self, VmTracerDispatcherDefault, tx, with_compression, k)

\* Vm::finish_batch
finish_batch(self, k) ==
    LET r == execute_till_block_end(self.vm, "BlockPostprocessing", k)
    IN  Outcome([self EXCEPT !.vm = r.vm], Ret("value", glue_into(r.result)))

\* VmInterfaceHistoryEnabled::make_snapshot
make_snapshot(self) ==
    Outcome([self EXCEPT !.vm = save_current_vm_as_snapshot(self.vm)], Unit)

\* VmInterfaceHistoryEnabled::rollback_to_the_latest_snapshot
rollback_to_the_latest_snapshot(self) ==
    Outcome([self EXCEPT !.vm = rollback_to_latest_snapshot_popping(self.vm)], Unit)

\* variant: delegates to the popping rollback of the engine
pop_snapshot_with_rollback(self) ==
    Outcome([self EXCEPT !.vm = rollback_to_latest_snapshot_popping(self.vm)], Unit)

\* VmInterfaceHistoryEnabled::pop_snapshot_no_rollback
pop_snapshot_no_rollback(self) ==
    Outcome([self EXCEPT !.vm = engine_pop_snapshot_no_rollback(self.vm)], Unit)

\* ------------------------------------------------------------ state machine
Self ==
    [vm |-> vm, system_env |-> system_env,
     last_tx_compressed_bytecodes |-> last_tx_compressed_bytecodes]

\* what a caller can observe of the instance: the engine state (bootloader
\* memory, executed transactions, bytecode cache), the environment and the
\* value of get_last_tx_compressed_bytecodes
Observable(self) ==
    [engine |-> EngineCore(self.vm), system_env |-> self.system_env,
     last_tx_compressed_bytecodes |-> get_last_tx_compressed_bytecodes(self)]

NoCall ==
    [op |-> "new", mode |-> "none", tx |-> NoTx, with_compression |-> FALSE,
     ret |-> Unit, bytecodes |-> <<>>, attempts |-> 0]

SystemEnvs ==
    [execution_mode : TxExecutionModes,
     default_validation_computational_gas_limit : {DefaultValidationGasLimit}]

VmInitial(h) ==
    /\ \E env \in SystemEnvs, known \in SUBSET Hashes :
          /\ vm = VmNew(env, known).vm
          /\ system_env = VmNew(env, known).system_env
          /\ last_tx_compressed_bytecodes = VmNew(env, known).last_tx_compressed_bytecodes
    /\ H = h
    /\ lastCall = NoCall
    /\ panicked = FALSE
    /\ finished = FALSE
    /\ nsub = 0
    /\ captured = <<>>

DispatcherInitial ==
    /\ tracers \in SeqsUpTo(TracerIds, MaxTracers)
    /\ answers \in [TracerIds -> BOOLEAN]
    /\ calls = <<>>
    /\ lastHook = NoHook
    /\ stop_result = FALSE

DispatcherIdle ==
    /\ tracers = TracerDispatcherDefault
    /\ answers = [t \in TracerIds |-> FALSE]
    /\ calls = <<>>
    /\ lastHook = NoHook
    /\ stop_result = FALSE

VmIdle ==
    /\ vm = init_vm_with_gas_limit({})
    /\ system_env = [execution_mode |-> "VerifyExecute",
                     default_validation_computational_gas_limit |-> DefaultValidationGasLimit]
    /\ last_tx_compressed_bytecodes = <<>>
    /\ H = "HistoryDisabled"
    /\ lastCall = NoCall
    /\ panicked = FALSE
    /\ finished = FALSE
    /\ nsub = 0
    /\ captured = <<>>

\* ------------------------- version-agnostic dispatcher (multivm_dispatcher)
\* From<MultiVmTracerPointer> for TracerDispatcher
FromTracer(value) == [tracers |-> <<value>>]

\* From<Vec<MultiVmTracerPointer>> for TracerDispatcher
FromVec(value) == [tracers |-> value]

\* Default for TracerDispatcher
MultiVmTracerDispatcherDefault == [tracers |-> <<>>]

\* MultiVmTracer::latest: the native representation of one tracer for vm_latest
latest(x) == [version |-> "vm_latest", of |-> x]

\* MultiVmTracer::vm_virtual_blocks
vm_virtual_blocks(x) == [version |-> "vm_virtual_blocks", of |-> x]

\* the native TracerDispatcher::new(tracers)
TracerDispatcherNew(ts) == [tracers |-> ts]

\* variant: the projected members are collected back to front
into_vm_latest_reversed(value) ==
    TracerDispatcherNew([i \in 1..Len(value.tracers) |->
                            latest(value.tracers[Len(value.tracers) + 1 - i])])

\* From<TracerDispatcher> for vm_latest::TracerDispatcher
into_vm_latest(value) ==
    TracerDispatcherNew([i \in 1..Len(value.tracers) |-> latest(value.tracers[i])])

\* From<TracerDispatcher> for vm_virtual_blocks::TracerDispatcher
into_vm_virtual_blocks(value) ==
    TracerDispatcherNew([i \in 1..Len(value.tracers) |->
                            vm_virtual_blocks(value.tracers[i])])

\* no version-agnostic dispatcher is held (none built yet, or moved away)
NoDispatcher ==
    [live |-> FALSE, ctor |-> "none", arg |-> <<>>,
     d |-> MultiVmTracerDispatcherDefault]

NoNative == [version |-> "none", d |-> TracerDispatcherNew(<<>>)]

ProjectionIdle ==
    /\ mv = NoDispatcher
    /\ native = NoNative

\* ------------------------------------------------- call tracer (call_tracer)
\* the one Arc<OnceCell<Vec<Call>>> the tracers of a run share
SharedCell == <<"result">>

\* CallTracer::new
CallTracerNew(result) == [stack |-> <<>>, result |-> Some(result)]

\* CallTracer::default (derived): no stack, no result cell
CallTracerDefault == [stack |-> <<>>, result |-> None]

\* CallTracer::extract_result: takes the stack and keeps the far calls
extract_result(self) ==
    [self |-> [self EXCEPT !.stack = <<>>],
     val |-> [i \in 1..Len(self.stack) |-> self.stack[i].farcall]]

\* OnceCell::set: stores the value when the cell is empty, and otherwise
\* leaves the cell alone and hands the value back as an error
OnceCellSet(c, value) ==
    IF c.some THEN [cell |-> c, ok |-> FALSE]
    ELSE [cell |-> Some(value), ok |-> TRUE]

\* variant: a second write replaces the stored value
store_result_overwriting(self, c) ==
    IF ~self.result.some
    THEN [self |-> self, cell |-> c, ret |-> Unit]
    ELSE LET e == extract_result(self)
         IN  [self |-> e.self, cell |-> Some(e.val), ret |-> Unit]

\* CallTracer::store_result
store_result(self, c) ==
    IF ~self.result.some
    THEN [self |-> self, cell |-> c, ret |-> Unit]
    ELSE LET e == extract_result(self)
             r == OnceCellSet(c, e.val)
         IN  [self |-> e.self, cell |-> r.cell,
              ret |-> IF r.ok THEN Unit ELSE Panic]

NoStore == [who |-> 0, had_cell |-> FALSE, stack |-> <<>>, ret |-> Unit]

CallTracerIdle ==
    /\ cell = None
    /\ call_tracers = <<>>
    /\ ncalls = 0
    /\ lastStore = NoStore

\* ---- the dispatcher driven by the engine
DInit == DispatcherInitial /\ VmIdle /\ ProjectionIdle /\ CallTracerIdle

\* the engine calls one of the forwarding hooks on the dispatcher
DispatchHook ==
    \E h \in ForwardingHooks, a \in Args :
        /\ calls' = ForEachTracer(tracers, h, a, <<>>)
        /\ lastHook' = [hook |-> h, arg |-> a]
        /\ UNCHANGED <<tracers, answers, stop_result>>
        /\ UNCHANGED <<vmvars, pvars, cvars>>

\* the engine polls the dispatcher once per cycle
PollShouldStop ==
    LET r == should_stop_execution(tracers, answers)
    IN  /\ calls' = r.log
        /\ stop_result' = r.result
        /\ lastHook' = [hook |-> "should_stop_execution", arg |-> 0]
        /\ UNCHANGED <<tracers, answers>>
        /\ UNCHANGED <<vmvars, pvars, cvars>>

\* a member tracer changes its own answer between dispatcher calls
MemberChangesAnswer ==
    \E t \in TracerIds :
        /\ answers' = [answers EXCEPT ![t] = ~answers[t]]
        /\ UNCHANGED <<tracers, calls, lastHook, stop_result>>
        /\ UNCHANGED <<vmvars, pvars, cvars>>

DNext == DispatchHook \/ PollShouldStop \/ MemberChangesAnswer

SpecDispatcher == DInit /\ [][DNext]_vars

\* ---- a caller driving one vm 1.3.2 instance
Init ==
    /\ VmInitial("HistoryDisabled") /\ DispatcherIdle
    /\ ProjectionIdle /\ CallTracerIdle

\* commit the outcome of a call
Apply(out, op, mode, tx, wc) ==
    /\ vm' = out.self.vm
    /\ system_env' = out.self.system_env
    /\ last_tx_compressed_bytecodes' = out.self.last_tx_compressed_bytecodes
    /\ panicked' = (out.ret.kind = "panic")
    /\ lastCall' = [op |-> op, mode |-> mode, tx |-> tx, with_compression |-> wc,
                    ret |-> out.ret,
                    bytecodes |-> out.bytecodes, attempts |-> out.attempts]

\* how many transactions the caller hands to the instance
TxBound == IF H = "HistoryEnabled" THEN MaxHistoryTxs ELSE MaxTxs

NewTx(d) == [id |-> nsub + 1, factory_deps |-> d]

\* what the interpreter may register as known while running: any of the
\* not yet known factory deps of the transactions in bootloader memory
Registrations(entries) == SUBSET (UnionDepHashes(entries) \ vm.known_bytecodes)

PushTransaction ==
    /\ ~panicked /\ nsub < TxBound
    /\ \E d \in FactoryDeps :
          Apply(push_transaction(Self, NewTx(d)), "push_transaction", "none",
                NewTx(d), FALSE)
    /\ nsub' = nsub + 1
    /\ UNCHANGED <<H, finished, captured>> /\ UNCHANGED <<dvars, pvars, cvars>>

Inspect ==
    /\ ~panicked
    /\ \E t \in AnyDispatchers, m \in VmExecutionModes,
          k \in Registrations(vm.pending) :
          Apply(inspect(Self, t, m, k), "inspect", m, NoTx, FALSE)
    /\ UNCHANGED <<H, finished, nsub, captured>> /\ UNCHANGED <<dvars, pvars, cvars>>

Execute ==
    /\ ~panicked
    /\ \E m \in VmExecutionModes, k \in Registrations(vm.pending) :
          Apply(execute(Self, m, k), "execute", m, NoTx, FALSE)
    /\ UNCHANGED <<H, finished, nsub, captured>> /\ UNCHANGED <<dvars, pvars, cvars>>

InspectTransactionWithBytecodeCompression ==
    /\ ~panicked /\ nsub < TxBound
    /\ \E t \in AnyDispatchers, d \in FactoryDeps, wc \in BOOLEAN :
          \E k \in Registrations(Append(vm.pending, [tx |-> NewTx(d)])) :
             Apply(inspect_transaction_with_bytecode_compression(Self, t, NewTx(d), wc, k),
                   "inspect_transaction_with_bytecode_compression", "none",
                   NewTx(d), wc)
    /\ nsub' = nsub + 1
    /\ UNCHANGED <<H, finished, captured>> /\ UNCHANGED <<dvars, pvars, cvars>>

ExecuteTransactionWithBytecodeCompression ==
    /\ ~panicked /\ nsub < TxBound
    /\ \E d \in FactoryDeps, wc \in BOOLEAN :
          \E k \in Registrations(Append(vm.pending, [tx |-> NewTx(d)])) :
             Apply(execute_transaction_with_bytecode_compression(Self, NewTx(d), wc, k),
                   "execute_transaction_with_bytecode_compression", "none",
                   NewTx(d), wc)
    /\ nsub' = nsub + 1
    /\ UNCHANGED <<H, finished, captured>> /\ UNCHANGED <<dvars, pvars, cvars>>

StartNewL2Block ==
    /\ ~panicked
    /\ Apply(start_new_l2_block(Self, 0), "start_new_l2_block", "none", NoTx,
             FALSE)
    /\ UNCHANGED <<H, finished, nsub, captured>> /\ UNCHANGED <<dvars, pvars, cvars>>

GetCurrentExecutionState ==
    /\ ~panicked
    /\ Apply(get_current_execution_state(Self), "get_current_execution_state",
             "none", NoTx, FALSE)
    /\ UNCHANGED <<H, finished, nsub, captured>> /\ UNCHANGED <<dvars, pvars, cvars>>

FinishBatch ==
    /\ ~panicked
    /\ \E k \in Registrations(vm.pending) :
          Apply(finish_batch(Self, k), "finish_batch", "none", NoTx, FALSE)
    /\ finished' = TRUE
    /\ UNCHANGED <<H, nsub, captured>> /\ UNCHANGED <<dvars, pvars, cvars>>

MakeSnapshot ==
    /\ ~panicked /\ H = "HistoryEnabled"
    /\ Len(vm.snapshots) < MaxSnapshots
    /\ Apply(make_snapshot(Self), "make_snapshot", "none", NoTx, FALSE)
    /\ captured' = Append(captured, Observable(Self))
    /\ UNCHANGED <<H, finished, nsub>> /\ UNCHANGED <<dvars, pvars, cvars>>

RollbackToTheLatestSnapshot ==
    /\ ~panicked /\ H = "HistoryEnabled"
    /\ vm.snapshots # <<>>
    /\ Apply(rollback_to_the_latest_snapshot(Self), "rollback_to_the_latest_snapshot",
             "none", NoTx, FALSE)
    /\ captured' = SubSeq(captured, 1, Len(captured) - 1)
    /\ UNCHANGED <<H, finished, nsub>> /\ UNCHANGED <<dvars, pvars, cvars>>

PopSnapshotNoRollback ==
    /\ ~panicked /\ H = "HistoryEnabled"
    /\ vm.snapshots # <<>>
    /\ Apply(pop_snapshot_no_rollback(Self), "pop_snapshot_no_rollback",
             "none", NoTx, FALSE)
    /\ captured' = SubSeq(captured, 1, Len(captured) - 1)
    /\ UNCHANGED <<H, finished, nsub>> /\ UNCHANGED <<dvars, pvars, cvars>>

Next ==
    \/ PushTransaction
    \/ Inspect
    \/ Execute
    \/ InspectTransactionWithBytecodeCompression
    \/ ExecuteTransactionWithBytecodeCompression
    \/ StartNewL2Block
    \/ GetCurrentExecutionState
    \/ FinishBatch

Spec == Init /\ [][Next]_vars

\* ---- a caller driving a history-enabled vm 1.3.2 instance
InitHistory ==
    /\ VmInitial("HistoryEnabled") /\ DispatcherIdle
    /\ ProjectionIdle /\ CallTracerIdle

NextHistory ==
    \/ Next
    \/ MakeSnapshot
    \/ RollbackToTheLatestSnapshot
    \/ PopSnapshotNoRollback

SpecHistory == InitHistory /\ [][NextHistory]_vars

\* ---- a caller assembling tracer dispatchers for an engine version
PInit == ProjectionIdle /\ DispatcherIdle /\ VmIdle /\ CallTracerIdle

BuildDefault ==
    /\ mv' = [live |-> TRUE, ctor |-> "default", arg |-> <<>>,
              d |-> MultiVmTracerDispatcherDefault]
    /\ UNCHANGED <<native, dvars, vmvars, cvars>>

BuildFromTracer ==
    \E t \in TracerIds :
        /\ mv' = [live |-> TRUE, ctor |-> "tracer", arg |-> <<t>>,
                  d |-> FromTracer(t)]
        /\ UNCHANGED <<native, dvars, vmvars, cvars>>

BuildFromVec ==
    \E v \in SeqsUpTo(TracerIds, MaxTracers) :
        /\ mv' = [live |-> TRUE, ctor |-> "vec", arg |-> v, d |-> FromVec(v)]
        /\ UNCHANGED <<native, dvars, vmvars, cvars>>

\* the conversions take the dispatcher by value
IntoVmLatest ==
    /\ mv.live
    /\ native' = [version |-> "vm_latest", d |-> into_vm_latest(mv.d)]
    /\ mv' = NoDispatcher
    /\ UNCHANGED <<dvars, vmvars, cvars>>

IntoVmVirtualBlocks ==
    /\ mv.live
    /\ native' = [version |-> "vm_virtual_blocks", d |-> into_vm_virtual_blocks(mv.d)]
    /\ mv' = NoDispatcher
    /\ UNCHANGED <<dvars, vmvars, cvars>>

PNext ==
    \/ BuildDefault
    \/ BuildFromTracer
    \/ BuildFromVec
    \/ IntoVmLatest
    \/ IntoVmVirtualBlocks

SpecProjection == PInit /\ [][PNext]_vars

\* ---- call tracers sharing one result cell
CInit == CallTracerIdle /\ DispatcherIdle /\ VmIdle /\ ProjectionIdle

NewCallTracer ==
    /\ Len(call_tracers) < MaxCallTracers
    /\ call_tracers' = Append(call_tracers, CallTracerNew(SharedCell))
    /\ lastStore' = NoStore
    /\ UNCHANGED <<cell, ncalls, dvars, vmvars, pvars>>

DefaultCallTracer ==
    /\ Len(call_tracers) < MaxCallTracers
    /\ call_tracers' = Append(call_tracers, CallTracerDefault)
    /\ lastStore' = NoStore
    /\ UNCHANGED <<cell, ncalls, dvars, vmvars, pvars>>

\* #[derive(Clone)]: the stack is copied and the Arc is cloned
CloneCallTracer ==
    /\ Len(call_tracers) < MaxCallTracers
    /\ \E i \in 1..Len(call_tracers) :
          call_tracers' = Append(call_tracers, call_tracers[i])
    /\ lastStore' = NoStore
    /\ UNCHANGED <<cell, ncalls, dvars, vmvars, pvars>>

\* a tracer records a far call on its stack while the engine runs
RecordFarcall ==
    /\ ncalls < MaxCalls
    /\ \E i \in 1..Len(call_tracers) :
          call_tracers' = [call_tracers EXCEPT ![i].stack =
                              Append(@, [farcall |-> ncalls + 1,
                                         near_calls_after |-> 0])]
    /\ ncalls' = ncalls + 1
    /\ lastStore' = NoStore
    /\ UNCHANGED <<cell, dvars, vmvars, pvars>>

\* one owner stores its result; a panic unwinds that owner only, the other
\* owners of the cell keep running
StoreResult ==
    \E i \in 1..Len(call_tracers) :
        LET o == store_result(call_tracers[i], cell)
        IN  /\ call_tracers' = [call_tracers EXCEPT ![i] = o.self]
            /\ cell' = o.cell
            /\ lastStore' = [who |-> i,
                             had_cell |-> call_tracers[i].result.some,
                             stack |-> extract_result(call_tracers[i]).val,
                             ret |-> o.ret]
            /\ UNCHANGED <<ncalls, dvars, vmvars, pvars>>

CNext ==
    \/ NewCallTracer
    \/ DefaultCallTracer
    \/ CloneCallTracer
    \/ RecordFarcall
    \/ StoreResult

SpecCallTracer == CInit /\ [][CNext]_vars

\* ------------------------------------------------------------ properties

\* C1: each forwarding hook called on the dispatcher is invoked exactly once
\* on every member, in registration order, with the same arguments; nothing is
\* dropped, duplicated or reordered, and an empty dispatcher invokes nothing.
C1_FanOutInOrder ==
    lastHook.hook \in ForwardingHooks =>
        /\ Len(calls) = Len(tracers)
        /\ \A i \in 1..Len(tracers) :
              calls[i] = [tracer |-> tracers[i], hook |-> lastHook.hook,
                          arg |-> lastHook.arg]

C1_Witness ==
    /\ lastHook.hook = "after_execution"
    /\ Len(tracers) >= 2
    /\ tracers[1] # tracers[Len(tracers)]
    /\ Len(calls) = Len(tracers)

\* C2: should_stop_execution returns the OR of the members' answers (false
\* for the empty list) and polls every member exactly once, in registration
\* order, also after an earlier member has answered true.
C2_StopIsOrOfAll ==
    [][PollShouldStop =>
        /\ stop_result' = (\E i \in 1..Len(tracers) : answers[tracers[i]])
        /\ Len(calls') = Len(tracers)
        /\ \A i \in 1..Len(tracers) :
              calls'[i] = [tracer |-> tracers[i], hook |-> "should_stop_execution",
                           arg |-> 0]]_vars

C2_Witness ==
    /\ lastHook.hook = "should_stop_execution"
    /\ stop_result
    /\ Len(tracers) >= 2
    /\ answers[tracers[1]]
    /\ ~answers[tracers[Len(tracers)]]
    /\ Len(calls) = Len(tracers)

CompressionOps ==
    {"inspect_transaction_with_bytecode_compression",
     "execute_transaction_with_bytecode_compression"}

\* the instance and the returned value after a call agree with an outcome
Agrees(out) ==
    /\ Self' = out.self
    /\ lastCall'.ret = out.ret
    /\ panicked' = (out.ret.kind = "panic")

\* C3: execute(mode) behaves exactly as inspect(default_dispatcher, mode), and
\* execute_transaction_with_bytecode_compression(tx, c) exactly as
\* inspect_transaction_with_bytecode_compression(default_dispatcher, tx, c):
\* same returned value or fatal failure, same resulting Vm state.
C3_ExecuteIsInspectDefault ==
    [][/\ lastCall'.op = "execute" =>
            \E k \in Registrations(vm.pending) :
                Agrees(inspect(Self, VmTracerDispatcherDefault, lastCall'.mode, k))
       /\ lastCall'.op = "execute_transaction_with_bytecode_compression" =>
            \E k \in Registrations(Append(vm.pending, [tx |-> lastCall'.tx])) :
                Agrees(inspect_transaction_with_bytecode_compression(
                           Self, VmTracerDispatcherDefault, lastCall'.tx,
                           lastCall'.with_compression, k))]_vars

C3_Witness ==
    /\ lastCall.op = "execute"
    /\ lastCall.mode = "OneTx"
    /\ lastCall.ret.kind = "value"
    /\ lastCall.ret.val.logs # <<>>
    /\ system_env.execution_mode = "EstimateFee"

\* the distinct hashes of a dependency list, in order of first occurrence,
\* that are not in the given set of known hashes
RECURSIVE FirstUnknownOccurrences(_, _, _)
FirstUnknownOccurrences(deps, known, i) ==
    IF i > Len(deps) THEN <<>>
    ELSE LET h == hash_bytecode(deps[i])
             first == \A j \in 1..(i - 1) : hash_bytecode(deps[j]) # h
         IN  (IF first /\ h \notin known THEN <<h>> ELSE <<>>)
             \o FirstUnknownOccurrences(deps, known, i + 1)

\* C4: with compression requested, the pending hashes are exactly the distinct
\* hashes of the dependency list, in order of first occurrence, that the cache
\* does not already know; one compression attempt is made per pending hash.
C4_PendingIsDistinctUnknown ==
    [][(lastCall'.op \in CompressionOps /\ lastCall'.with_compression) =>
        /\ lastCall'.bytecodes =
              FirstUnknownOccurrences(unwrap_or_default(lastCall'.tx.factory_deps),
                                      vm.known_bytecodes, 1)
        /\ lastCall'.attempts = Len(lastCall'.bytecodes)
        /\ \A i \in 1..Len(lastCall'.bytecodes) :
              lastCall'.bytecodes[i] \notin vm.known_bytecodes]_vars

C4_Witness ==
    /\ lastCall.op = "inspect_transaction_with_bytecode_compression"
    /\ lastCall.with_compression
    /\ lastCall.tx.factory_deps.some
    /\ Len(lastCall.tx.factory_deps.v) = 2
    /\ lastCall.tx.factory_deps.v[1] = lastCall.tx.factory_deps.v[2]
    /\ Len(lastCall.bytecodes) = 1
    /\ lastCall.attempts = 1

\* C5: with compression requested the call returns CompressionFailed iff,
\* after the transaction was executed, some pending hash is still unknown to
\* the cache; otherwise it returns the execution result; a failure carries no
\* execution result.
C5_FailsIffPendingUnknown ==
    (lastCall.op \in CompressionOps /\ lastCall.with_compression) =>
        /\ lastCall.ret.kind \in {"Ok", "Err"}
        /\ (lastCall.ret.kind = "Err") <=>
              (\E i \in 1..Len(lastCall.bytecodes) :
                   lastCall.bytecodes[i] \notin vm.known_bytecodes)
        /\ lastCall.ret.kind = "Err" => lastCall.ret.val = NoVal
        /\ lastCall.ret.kind = "Ok" => lastCall.ret.val.statistics[1] = "execute_next_tx"

C5_Witness ==
    /\ lastCall.op = "inspect_transaction_with_bytecode_compression"
    /\ lastCall.with_compression
    /\ lastCall.ret = BytecodeCompressionFailed
    /\ Len(lastCall.bytecodes) = 2
    /\ lastCall.bytecodes[1] \in vm.known_bytecodes
    /\ vm.executed # <<>>

\* C6: rollback_to_the_latest_snapshot restores the observable state of the
\* Vm, get_last_tx_compressed_bytecodes included, to what it was when the
\* snapshot was made, and leaves the snapshot stack one entry shorter.
C6_RollbackRestoresObservable ==
    [][lastCall'.op = "rollback_to_the_latest_snapshot" =>
        /\ Observable(Self') = captured[Len(captured)]
        /\ Len(vm'.snapshots) = Len(vm.snapshots) - 1]_vars

\* C7: the snapshots form a strict stack: the stack always holds, in order,
\* the engine states captured by the make_snapshot calls not yet consumed;
\* pop_snapshot_no_rollback removes only the most recent one and leaves the
\* earlier ones and the current Vm state unchanged; a rollback consumes the top.
C7_SnapshotsAreAStack ==
    /\ [](/\ Len(vm.snapshots) = Len(captured)
          /\ \A i \in 1..Len(captured) : vm.snapshots[i] = captured[i].engine)
    /\ [][/\ lastCall'.op = "pop_snapshot_no_rollback" =>
              /\ vm'.snapshots = SubSeq(vm.snapshots, 1, Len(vm.snapshots) - 1)
              /\ Observable(Self') = Observable(Self)
          /\ lastCall'.op = "rollback_to_the_latest_snapshot" =>
              /\ vm'.snapshots = SubSeq(vm.snapshots, 1, Len(vm.snapshots) - 1)
              /\ EngineCore(vm') = vm.snapshots[Len(vm.snapshots)]]_vars

C7_Witness ==
    /\ lastCall.op = "pop_snapshot_no_rollback"
    /\ Len(vm.snapshots) = 1
    /\ vm.snapshots[1] # EngineCore(vm)
    /\ vm.pending # <<>>

\* C8: once finish_batch has returned, push_transaction, inspect/execute in
\* OneTx mode, the compression calls and a second finish_batch fail fatally.
C8_FinishBatchIsTerminal ==
    [][(/\ finished
        /\ \/ lastCall'.op \in {"push_transaction", "finish_batch"} \cup CompressionOps
           \/ (lastCall'.op \in {"inspect", "execute"} /\ lastCall'.mode = "OneTx"))
       => (lastCall'.ret.kind = "panic" /\ panicked')]_vars

\* C9: on vm 1.3.2 inspect/execute with mode Batch fails fatally from every
\* state and under every execution policy, before executing anything: the Vm
\* state at the point of failure is unchanged.
C9_BatchModeFails ==
    [][(lastCall'.op \in {"inspect", "execute"} /\ lastCall'.mode = "Batch") =>
        /\ lastCall'.ret = Panic
        /\ panicked'
        /\ Self' = Self]_vars

C9_Witness ==
    /\ lastCall.op = "inspect"
    /\ lastCall.mode = "Batch"
    /\ panicked
    /\ vm.pending # <<>>
    /\ system_env.execution_mode = "EthCall"

\* C10: on vm 1.3.2 get_current_execution_state called before finish_batch
\* fails fatally; it never returns a state.
C10_StateBeforeFinishFails ==
    (lastCall.op = "get_current_execution_state" /\ ~finished) =>
        (lastCall.ret = Panic /\ panicked)

C10_Witness ==
    /\ lastCall.op = "get_current_execution_state"
    /\ ~finished
    /\ panicked
    /\ vm.executed # <<>>

\* the compression records of a dependency list: one record per distinct hash
\* the cache does not know, in order of first occurrence, for the bytecodes
\* that compress
RECURSIVE ExpectedRecords(_, _, _)
ExpectedRecords(deps, known, i) ==
    IF i > Len(deps) THEN <<>>
    ELSE LET h == hash_bytecode(deps[i])
             first == \A j \in 1..(i - 1) : hash_bytecode(deps[j]) # h
             c == from_original(deps[i])
         IN  (IF first /\ h \notin known /\ c.ok THEN <<c.info>> ELSE <<>>)
             \o ExpectedRecords(deps, known, i + 1)

\* the compression records that belong to a transaction in bootloader memory:
\* those it was submitted with, or, when it was pushed without any, those of
\* its own dependency list
RecordsOfEntry(entry, known) ==
    IF entry.compressed.some THEN entry.compressed.v
    ELSE ExpectedRecords(unwrap_or_default(entry.tx.factory_deps), known, 1)

\* the bootloader memory entries a call can execute: the pending ones and the
\* transaction the call itself submits
CandidateEntries(call) ==
    {vm.pending[i] : i \in 1..Len(vm.pending)}
    \cup (IF call.op \in CompressionOps
          THEN {[tx |-> call.tx,
                 compressed |->
                     Some(IF call.with_compression
                          THEN ExpectedRecords(unwrap_or_default(call.tx.factory_deps),
                                               vm.known_bytecodes, 1)
                          ELSE <<>>)]}
          ELSE {})

\* C11: get_last_tx_compressed_bytecodes returns the compression records of
\* the most recently executed transaction only, whichever call executed it,
\* and the empty list before any transaction has executed.
C11_LastRecordsOfLastExecuted ==
    /\ [](vm.executed = <<>> => get_last_tx_compressed_bytecodes(Self) = <<>>)
    /\ [][Len(vm'.executed) > Len(vm.executed) =>
            \E entry \in CandidateEntries(lastCall') :
                /\ entry.tx.id = vm'.executed[Len(vm'.executed)].id
                /\ get_last_tx_compressed_bytecodes(Self')
                      = RecordsOfEntry(entry, vm.known_bytecodes)]_vars

\* push_transaction only appends to the pending queue
PushOnlyAppends ==
    lastCall'.op = "push_transaction" =>
        /\ Len(vm'.pending) = Len(vm.pending) + 1
        /\ SubSeq(vm'.pending, 1, Len(vm.pending)) = vm.pending
        /\ vm'.pending[Len(vm'.pending)].tx = lastCall'.tx
        /\ vm'.executed = vm.executed
        /\ vm'.known_bytecodes = vm.known_bytecodes

\* a OneTx call executes exactly the transaction at the head of the queue
OneTxRunsHead ==
    /\ vm'.pending = Tail(vm.pending)
    /\ Len(vm'.executed) = Len(vm.executed) + 1
    /\ SubSeq(vm'.executed, 1, Len(vm.executed)) = vm.executed
    /\ vm'.executed[Len(vm'.executed)].id = Head(vm.pending).tx.id
    /\ lastCall'.ret.kind = "value"
    /\ lastCall'.ret.val.logs = <<Head(vm.pending).tx.id>>

OneTxCall(call) == call.op \in {"inspect", "execute"} /\ call.mode = "OneTx"

\* C12 (as stated): push_transaction only appends and executes nothing; each
\* inspect/execute in OneTx mode executes exactly the next pending
\* transaction, in push order, each once, under every execution policy.
C12_FifoEveryPolicy ==
    [][/\ PushOnlyAppends
       /\ (OneTxCall(lastCall') /\ vm.pending # <<>>) => OneTxRunsHead]_vars

\* C12 (amended): the same, for the VerifyExecute policy.
C12_FifoVerifyExecute ==
    [][/\ PushOnlyAppends
       /\ (/\ OneTxCall(lastCall')
           /\ vm.pending # <<>>
           /\ system_env.execution_mode = "VerifyExecute") => OneTxRunsHead]_vars

C12_Witness ==
    /\ system_env.execution_mode = "VerifyExecute"
    /\ lastCall.op = "execute"
    /\ lastCall.mode = "OneTx"
    /\ vm.pending = <<>>
    /\ Len(vm.executed) = 2
    /\ vm.executed[1] = [id |-> 1, path |-> "execute_next_tx"]
    /\ vm.executed[2] = [id |-> 2, path |-> "execute_next_tx"]
    /\ lastCall.ret.val.logs = <<2>>

\* C13: without compression the call produces no compression records (the
\* getter is empty afterwards, whatever an earlier transaction left), has no
\* pending hashes, runs no post-check and never returns CompressionFailed.
C13_NoCompressionNoRecords ==
    (lastCall.op \in CompressionOps /\ ~lastCall.with_compression) =>
        /\ get_last_tx_compressed_bytecodes(Self) = <<>>
        /\ lastCall.bytecodes = <<>>
        /\ lastCall.attempts = 0
        /\ lastCall.ret.kind = "Ok"

C13_Witness ==
    /\ lastCall.op = "inspect_transaction_with_bytecode_compression"
    /\ ~lastCall.with_compression
    /\ lastCall.tx.id = 2
    /\ TxDepHashes(lastCall.tx) \ vm.known_bytecodes # {}
    /\ vm.executed # <<>>
    /\ vm.executed[1].id = 1
    /\ lastCall.ret.kind = "Ok"

\* C16: when the call fails with CompressionFailed the records produced for
\* that transaction before the post-check are kept: the getter returns exactly
\* them, and they are records of that transaction's dependencies only.
C16_FailureKeepsRecords ==
    [][(/\ lastCall'.op \in CompressionOps
        /\ lastCall'.with_compression
        /\ lastCall'.ret = BytecodeCompressionFailed) =>
          /\ get_last_tx_compressed_bytecodes(Self')
                = ExpectedRecords(unwrap_or_default(lastCall'.tx.factory_deps),
                                  vm.known_bytecodes, 1)
          /\ \A i \in 1..Len(last_tx_compressed_bytecodes') :
                hash_bytecode(last_tx_compressed_bytecodes'[i].original)
                    \in TxDepHashes(lastCall'.tx)]_vars

C16_Witness ==
    /\ lastCall.op = "inspect_transaction_with_bytecode_compression"
    /\ lastCall.with_compression
    /\ lastCall.ret = BytecodeCompressionFailed
    /\ last_tx_compressed_bytecodes # <<>>
    /\ lastCall.tx.id = 2

\* C17: start_new_l2_block never fails and leaves the whole instance (engine
\* state with its pending queue and snapshot stack, system environment,
\* last_tx_compressed_bytecodes) unchanged.
C17_StartNewL2BlockIsNoOp ==
    [][lastCall'.op = "start_new_l2_block" =>
          /\ Self' = Self
          /\ lastCall'.ret = Unit
          /\ ~panicked']_vars

C17_Witness ==
    /\ lastCall.op = "start_new_l2_block"
    /\ vm.snapshots # <<>>
    /\ vm.executed # <<>>
    /\ last_tx_compressed_bytecodes # <<>>

\* the transactions a step executed ran on the given native path
NewlyExecutedOn(path) ==
    \A i \in (Len(vm.executed) + 1)..Len(vm'.executed) : vm'.executed[i].path = path

\* C18: inspect(OneTx) drives execute_next_tx with the validation gas limit
\* under VerifyExecute and execute_till_block_end(TransactionExecution) under
\* EstimateFee and EthCall; inspect(Bootloader) drives execute_block_tip; the
\* execution policy never changes.
C18_EntryPointByPolicy ==
    [][/\ system_env' = system_env
       /\ (lastCall'.op = "inspect" /\ lastCall'.mode = "OneTx") =>
             IF system_env.execution_mode = "VerifyExecute"
             THEN /\ lastCall'.ret.val.statistics =
                        <<"execute_next_tx", "none",
                          system_env.default_validation_computational_gas_limit>>
                  /\ NewlyExecutedOn("execute_next_tx")
             ELSE /\ lastCall'.ret.val.statistics =
                        <<"execute_till_block_end", "TransactionExecution", 0>>
                  /\ NewlyExecutedOn("execute_till_block_end")
       /\ (lastCall'.op = "inspect" /\ lastCall'.mode = "Bootloader") =>
             /\ lastCall'.ret.val.statistics[1] = "execute_block_tip"
             /\ vm' = vm]_vars

C18_Witness ==
    /\ system_env.execution_mode = "EthCall"
    /\ lastCall.op = "inspect"
    /\ lastCall.mode = "OneTx"
    /\ vm.executed # <<>>
    /\ vm.executed[Len(vm.executed)].path = "execute_till_block_end"
    /\ lastCall.ret.val.statistics[2] = "TransactionExecution"

\* C19 (as stated): inspect_transaction_with_bytecode_compression(d, tx, false)
\* gives the result (wrapped as success) and the engine state of
\* push_transaction(tx) followed by inspect(d, OneTx), under every policy.
C19_UncompressedIsPushThenInspect ==
    [][(/\ lastCall'.op = "inspect_transaction_with_bytecode_compression"
        /\ ~lastCall'.with_compression) =>
          \E t \in AnyDispatchers,
             k \in Registrations(Append(vm.pending, [tx |-> lastCall'.tx])) :
             LET o == inspect(push_transaction(Self, lastCall'.tx).self, t, "OneTx", k)
             IN  /\ lastCall'.ret = Ok(o.ret.val)
                 /\ EngineCore(vm').executed = EngineCore(o.self.vm).executed
                 /\ EngineCore(vm').known_bytecodes
                       = EngineCore(o.self.vm).known_bytecodes
                 /\ Len(vm'.pending) = Len(o.self.vm.pending)]_vars

\* C20: with compression requested, the records kept in
\* last_tx_compressed_bytecodes and submitted with the transaction are exactly
\* those of the pending dependencies whose compression succeeded, in order of
\* first occurrence, so there are at most as many as pending hashes; a pending
\* dependency that failed to compress has no record, stays pending and fails
\* the post-check when it is still unknown after execution.
C20_RecordsOfCompressedPending ==
    [][(lastCall'.op \in CompressionOps /\ lastCall'.with_compression) =>
          LET deps == unwrap_or_default(lastCall'.tx.factory_deps)
              recs == ExpectedRecords(deps, vm.known_bytecodes, 1)
          IN  /\ get_last_tx_compressed_bytecodes(Self') = recs
              /\ Len(recs) <= Len(lastCall'.bytecodes)
              /\ vm.pending # <<>> =>
                    /\ vm'.pending # <<>>
                    /\ vm'.pending[Len(vm'.pending)].tx = lastCall'.tx
                    /\ vm'.pending[Len(vm'.pending)].compressed = Some(recs)
              /\ \A i \in 1..Len(deps) :
                    (/\ hash_bytecode(deps[i]) \notin vm.known_bytecodes
                     /\ ~from_original(deps[i]).ok) =>
                       /\ \A j \in 1..Len(recs) : recs[j].original # deps[i]
                       /\ \E j \in 1..Len(lastCall'.bytecodes) :
                             lastCall'.bytecodes[j] = hash_bytecode(deps[i])
                       /\ hash_bytecode(deps[i]) \notin vm'.known_bytecodes =>
                             lastCall'.ret = BytecodeCompressionFailed]_vars

C20_Witness ==
    /\ lastCall.op \in CompressionOps
    /\ lastCall.with_compression
    /\ Len(lastCall.bytecodes) = 2
    /\ Len(last_tx_compressed_bytecodes) = 1
    /\ vm.pending # <<>>
    /\ vm.pending[Len(vm.pending)].compressed = Some(last_tx_compressed_bytecodes)
    /\ lastCall.ret = BytecodeCompressionFailed

\* C14: the version-agnostic dispatcher keeps the members it was built from
\* (Default: none; From a single tracer: that one; From a Vec: the same list in
\* the same order), and a conversion into vm_latest or vm_virtual_blocks yields
\* a native list of the same length whose i-th member is the projection of the
\* i-th member for that version.
C14_OrderPreservedThroughProjection ==
    /\ [](mv.live =>
            CASE mv.ctor = "default" -> mv.d.tracers = <<>>
              [] mv.ctor = "tracer" -> mv.d.tracers = <<mv.arg[1]>>
              [] mv.ctor = "vec" -> mv.d.tracers = mv.arg)
    /\ [][(mv.live /\ ~mv'.live) =>
            /\ native'.version \in {"vm_latest", "vm_virtual_blocks"}
            /\ Len(native'.d.tracers) = Len(mv.d.tracers)
            /\ \A i \in 1..Len(mv.d.tracers) :
                  native'.d.tracers[i] =
                      [version |-> native'.version, of |-> mv.d.tracers[i]]]_vars

C14_Witness ==
    /\ ~mv.live
    /\ native.version = "vm_latest"
    /\ Len(native.d.tracers) = 3
    /\ native.d.tracers[1].of # native.d.tracers[3].of

\* C15: the shared result cell is written at most once: a store_result on a
\* tracer without a cell returns without touching the cell or the tracer; on
\* a tracer with a cell it writes the tracer's far calls when the cell is
\* empty, and panics leaving the cell as it is when the cell is already set;
\* once set, the value of the cell never changes.
C15_CellIsSingleAssignment ==
    /\ [][cell.some => cell' = cell]_vars
    /\ [][lastStore'.who # 0 =>
            IF ~lastStore'.had_cell
            THEN /\ cell' = cell
                 /\ call_tracers' = call_tracers
                 /\ lastStore'.ret = Unit
            ELSE IF cell.some
                 THEN /\ lastStore'.ret = Panic
                      /\ cell' = cell
                 ELSE /\ lastStore'.ret = Unit
                      /\ cell' = Some(lastStore'.stack)]_vars

C15_Witness ==
    /\ lastStore.who # 0
    /\ lastStore.had_cell
    /\ lastStore.ret = Panic
    /\ lastStore.stack # <<>>
    /\ cell.some
    /\ cell.v # lastStore.stack

\* C21: the dispatcher argument has no influence on vm 1.3.2: from every
\* reachable Vm state, for any two dispatchers (empty or not), inspect in any
\* mode and inspect_transaction_with_bytecode_compression with any transaction
\* return the same result and leave the same Vm state; and no call on the Vm
\* ever invokes a member tracer.
C21_DispatcherHasNoInfluence ==
    /\ [](\A d1 \in AnyDispatchers, d2 \in AnyDispatchers :
            /\ \A m \in VmExecutionModes, k \in Registrations(vm.pending) :
                  inspect(Self, d1, m, k) = inspect(Self, d2, m, k)
            /\ \A d \in FactoryDeps, wc \in BOOLEAN :
                  \A k \in Registrations(Append(vm.pending, [tx |-> NewTx(d)])) :
                     inspect_transaction_with_bytecode_compression(
                         Self, d1, NewTx(d), wc, k)
                     = inspect_transaction_with_bytecode_compression(
                         Self, d2, NewTx(d), wc, k))
    /\ [](calls = <<>> /\ lastHook = NoHook)

C21_Witness ==
    /\ lastCall.op = "inspect"
    /\ lastCall.mode = "OneTx"
    /\ lastCall.ret.val.logs # <<>>
    /\ vm.pending # <<>>
    /\ UnionDepHashes(vm.pending) \ vm.known_bytecodes # {}
    /\ \E d1 \in AnyDispatchers, d2 \in AnyDispatchers : d1 = <<>> /\ d2 # <<>>
    /\ calls = <<>>
====
